---- MODULE Spec2Model ----
(***************************************************************************)
(* Model of scripts/test_runner.py: the run of main() from the parsed test *)
(* cases on (driver synthesis, compile_cpp, the per-case loop around       *)
(* run_test_case, clean-up), over the files the run shares with any other  *)
(* invocation in the same workspace: io/input.txt, io/output.txt and       *)
(* io/temp_leetcode_runner.cpp.                                            *)
(*                                                                         *)
(* Text is a sequence of one-character strings.  "#" stands for a byte     *)
(* that is not valid text (open(..., 'r').read() raises on it).  Literals  *)
(* the code builds ("TIMEOUT", "ERROR: ...", "N/A") are one-token texts.   *)
(***************************************************************************)
EXTENDS Integers, Sequences, FiniteSets, TLC

\* ------------------------------------------------------------------ bounds

\* Largest number of test cases in a fixture.
NumCases == 2

\* ------------------------------------------------------- program constants

\* subprocess.run(..., timeout=5) in run_test_case.
ExecTimeout == 5

\* subprocess.run(compile_cmd, ..., timeout=30) in compile_cpp.
CompileTimeout == 30

\* Platform.LEETCODE and one platform that is compiled directly.
LEETCODE == "LeetCode"
CODEFORCES == "Codeforces"

\* The two invocations that may share one workspace root.
Run == {1, 2}

\* -------------------------------------------------------------- text helpers

Whitespace == {" ", "\n"}

RECURSIVE LStrip(_)
LStrip(s) ==
    IF s # <<>> /\ Head(s) \in Whitespace THEN LStrip(Tail(s)) ELSE s

RECURSIVE RStrip(_)
RStrip(s) ==
    IF s # <<>> /\ s[Len(s)] \in Whitespace
    THEN RStrip(SubSeq(s, 1, Len(s) - 1))
    ELSE s

\* str.strip(): leading and trailing whitespace removed.
Strip(s) == RStrip(LStrip(s))

\* str.split(): the maximal runs of non-whitespace characters, in order.
\* acc is the run being collected.
RECURSIVE SplitFrom(_, _)
SplitFrom(s, acc) ==
    IF s = <<>>
    THEN (IF acc = <<>> THEN <<>> ELSE <<acc>>)
    ELSE IF Head(s) \in Whitespace
         THEN (IF acc = <<>> THEN <<>> ELSE <<acc>>) \o SplitFrom(Tail(s), <<>>)
         ELSE SplitFrom(Tail(s), Append(acc, Head(s)))

Split(s) == SplitFrom(s, <<>>)

\* formatted_input of run_test_case: every part followed by a newline (both
\* branches of the bracket test append the same text).
RECURSIVE JoinLines(_)
JoinLines(parts) ==
    IF parts = <<>> THEN <<>>
    ELSE Head(parts) \o <<"\n">> \o JoinLines(Tail(parts))

\* What run_test_case writes to io/input.txt for a case.
ScratchInput(plat, input_data) ==
    IF plat = LEETCODE
    THEN Strip(JoinLines(Split(Strip(input_data))))
    ELSE input_data

\* open(output_file, 'r').read() succeeds only on valid text.
Decodable(s) == \A k \in 1..Len(s) : s[k] # "#"

\* ------------------------------------------------------------ result records

\* f"ERROR: {str(e)}" of run_test_case, for the fault named what.
ErrorText(what) == <<"ERROR: ", what>>

TIMEOUT == <<"TIMEOUT">>

NA == <<"N/A">>

\* f"{memory_kb} KB"
KB(memory_kb) == <<memory_kb, " KB">>

\* The except clauses of run_test_case's try block: TimeoutExpired and
\* Exception are caught; KeyboardInterrupt is a BaseException and is not.
CaughtNarrow(exc) == exc = "TimeoutExpired"

Caught(exc) == exc \in {"TimeoutExpired", "Exception"}

\* TestResult(test_case, "TIMEOUT", False, 5.0, "N/A")
\* partial is what the child had written to io/output.txt by then.
TimeoutResultFromPartial(tc, partial) ==
    [test_case |-> tc,
     actual_output |-> IF partial = <<>> THEN TIMEOUT ELSE partial,
     passed |-> FALSE, execution_time |-> ExecTimeout, memory_used |-> NA]

TimeoutResult(tc, partial) ==
    [test_case |-> tc, actual_output |-> TIMEOUT, passed |-> FALSE,
     execution_time |-> ExecTimeout, memory_used |-> NA]

\* TestResult(test_case, f"ERROR: {str(e)}", False, 0.0, "N/A")
ErrorResult(tc, what) ==
    [test_case |-> tc, actual_output |-> ErrorText(what), passed |-> FALSE,
     execution_time |-> 0, memory_used |-> NA]

\* passed = actual_output == test_case.expected_output.strip(), where
\* actual_output is the stripped content of io/output.txt.
PassedOnExitZero(content, expected_output, returncode) ==
    Strip(content) = Strip(expected_output) /\ returncode = 0

Passed(content, expected_output, returncode) ==
    Strip(content) = Strip(expected_output)

\* TestResult(test_case, actual_output, passed, execution_time, memory_used)
CompletedResult(tc, content, returncode, execution_time, memory_used) ==
    [test_case |-> tc, actual_output |-> Strip(content),
     passed |-> Passed(content, tc.expected_output, returncode),
     execution_time |-> execution_time, memory_used |-> memory_used]

\* ------------------------------------------------ /usr/bin/time -f "%e %M"

\* The decimal tokens float() parses, by value.
Digits == <<"0", "1", "2", "3", "4", "5">>

IsFloat(tok) == \E n \in 1..Len(Digits) : Digits[n] = tok

Float(tok) == (CHOOSE n \in 1..Len(Digits) : Digits[n] = tok) - 1

\* stderr of the child as result.stderr.strip().split() sees it: what the
\* executable wrote, then time's note on a nonzero exit status, then the
\* "%e %M" line.
TimeStderr(prog_stderr, returncode, elapsed, memory_kb) ==
    prog_stderr
      \o (IF returncode # 0
          THEN <<"Command", "exited", "with", "non-zero", "status", "1">>
          ELSE <<>>)
      \o <<Digits[elapsed + 1], memory_kb>>

\* The parse of time's report: execution_time and memory_used after it.
\* float() raising leaves the wall-clock time and sets memory to "N/A".
Measured(parts, wall) ==
    IF Len(parts) >= 2
    THEN IF IsFloat(parts[1])
         THEN [execution_time |-> Float(parts[1]), memory_used |-> KB(parts[2])]
         ELSE [execution_time |-> wall, memory_used |-> NA]
    ELSE [execution_time |-> wall, memory_used |-> NA]

\* -------------------------------------------------------------- compile_cpp

ExecutablePath == "out/solution"

\* What the toolchain and the file system can do to one call of compile_cpp.
Toolchain ==
    [kind : {"exit0"}, text : {<<>>}]
      \cup [kind : {"nonzero"}, text : {<<>>, <<"error: expected ';'">>}]
      \cup [kind : {"timeout"}, text : {<<>>}]
      \cup [kind : {"fault"}, text : {<<"No such file or directory: 'g++'">>}]
      \cup [kind : {"makedirs_fault"}, text : {<<"Permission denied: 'out'">>}]

CompilationResult(success, error_message, executable_path) ==
    [success |-> success, error_message |-> error_message,
     executable_path |-> executable_path]

\* os.makedirs(out_dir, exist_ok=True) stands before the try block.
CompileRaises(tool) == tool.kind = "makedirs_fault"

\* The value compile_cpp returns when it returns.
CompileReturns(tool) ==
    CASE tool.kind = "exit0" -> CompilationResult(TRUE, <<>>, ExecutablePath)
      [] tool.kind = "nonzero" -> CompilationResult(FALSE, tool.text, "")
      [] tool.kind = "timeout" ->
            CompilationResult(FALSE, <<"Compilation timeout">>, "")
      [] OTHER -> CompilationResult(FALSE, tool.text, "")

\* main after compile_cpp: sys.exit(1) unless compilation_result.success.
AfterCompileIgnoringFailure(compilation) == "loop"

AfterCompile(compilation) ==
    IF compilation.success THEN "loop" ELSE "compile_failed"

\* -------------------------------------------------------------------- state

VARIABLES
    platform,            \* [Run -> platform tag] detect_platform's answer
    test_cases,          \* [Run -> Seq(TestCase)] parse_test_cases' answer
    pc,                  \* [Run -> position of main]
    i,                   \* [Run -> 1-based index of the loop over test_cases]
    temp_cpp,            \* [Run -> "None" or the driver's path]
    compilation_result,  \* [Run -> <<>> before compile_cpp returns, else <<r>>]
    results,             \* [Run -> Seq(TestResult)]
    raised,              \* [Run -> where an uncaught exception came from]
    proc,                \* [Run -> state of the case's child process]
    stdin,               \* [Run -> text the child process was given]
    measured,            \* [Run -> returncode, execution_time, memory_used]
    input_file,          \* content of io/input.txt
    output_file,         \* content of io/output.txt
    temp_exists,         \* io/temp_leetcode_runner.cpp exists
    win32,               \* sys.platform == "win32"
    time_available,      \* /usr/bin/time can be executed
    call,                \* one call of a function of the harness, taken alone
    orphan,              \* <<>>, or <<offset>>: a timed-out executable that
                         \* outlived its killed parent, and its place in
                         \* io/output.txt
    stdout               \* [Run -> text the child process wrote]

vars ==
    <<platform, test_cases, pc, i, temp_cpp, compilation_result, results,
      raised, proc, stdin, measured, input_file, output_file, temp_exists,
      win32, time_available, call, orphan, stdout>>

TempPath == "io/temp_leetcode_runner.cpp"

\* ------------------------------------------------------------------- inputs

\* (input, expected output) pairs as parse_test_cases returns them: the
\* expected output stripped and non-empty, the input non-blank.
CaseSamples ==
    { <<<<"1", " ", "2">>, <<"3">>>>, <<<<"5">>, <<"5">>>> }

\* The fixtures of at most maxlen cases, numbered by position.
Fixtures(maxlen) ==
    UNION { { [k \in 1..n |-> [input_data |-> f[k][1],
                               expected_output |-> f[k][2],
                               test_number |-> k]] :
              f \in [1..n -> CaseSamples] } : n \in 0..maxlen }

\* What the executable under test may leave on its standard output.
OutputSamples == { <<>>, <<"3", "\n">>, <<"5">>, <<"#">> }

\* What the executable under test may write to its standard error, as tokens.
StderrSamples == { <<>>, <<"oops">> }

\* Elapsed seconds of a child that ends within the timeout.
ElapsedSamples == {1, ExecTimeout - 1}

\* Content left in the scratch files by an earlier run.
StaleSamples == { <<>>, <<"5">> }

NoMeasure == [returncode |-> 0, execution_time |-> 0, memory_used |-> NA]

TypeOK ==
    /\ pc \in [Run -> {"absent", "parsed", "synth", "compile", "loop", "launch",
                       "running", "read", "done", "no_tests", "compile_failed",
                       "crashed", "interrupted"}]
    /\ proc \in [Run -> {"none", "running", "ended", "killed"}]
    /\ temp_exists \in BOOLEAN
    /\ \A r \in Run : i[r] \in 1..(Len(test_cases[r]) + 1)

Idle(r) ==
    /\ platform[r] = CODEFORCES
    /\ test_cases[r] = <<>>
    /\ pc[r] = "absent"

InitRun(r, fixtures) ==
    /\ platform[r] \in {LEETCODE, CODEFORCES}
    /\ test_cases[r] \in fixtures
    /\ pc[r] = "parsed"

InitCommon ==
    /\ platform \in [Run -> {LEETCODE, CODEFORCES}]
    /\ test_cases \in [Run -> Fixtures(NumCases)]
    /\ pc \in [Run -> {"absent", "parsed"}]
    /\ i = [r \in Run |-> 1]
    /\ temp_cpp = [r \in Run |-> "None"]
    /\ compilation_result = [r \in Run |-> <<>>]
    /\ results = [r \in Run |-> <<>>]
    /\ raised = [r \in Run |-> "None"]
    /\ proc = [r \in Run |-> "none"]
    /\ stdin = [r \in Run |-> <<>>]
    /\ measured = [r \in Run |-> NoMeasure]
    /\ input_file = <<>>
    /\ output_file \in StaleSamples
    /\ temp_exists = FALSE
    /\ win32 \in BOOLEAN
    /\ time_available \in BOOLEAN
    /\ (win32 => time_available = FALSE)
    /\ orphan = <<>>
    /\ stdout = [r \in Run |-> <<>>]

\* No function is called on its own.
NoCall == [fn |-> "none"]

\* One invocation of the harness in the workspace.
Init ==
    /\ call = NoCall
    /\ InitCommon
    /\ InitRun(1, Fixtures(NumCases))
    /\ Idle(2)

\* Two invocations started in the same workspace root.
InitConcurrent ==
    /\ call = NoCall
    /\ InitCommon
    /\ InitRun(1, Fixtures(1))
    /\ InitRun(2, Fixtures(1))
    /\ ~win32
    /\ output_file = <<>>

\* No invocation of main is under way: the state of the harness while one of
\* its functions is called on its own.
HarnessIdle ==
    /\ platform = [r \in Run |-> CODEFORCES]
    /\ test_cases = [r \in Run |-> <<>>]
    /\ pc = [r \in Run |-> "absent"]
    /\ i = [r \in Run |-> 1]
    /\ temp_cpp = [r \in Run |-> "None"]
    /\ compilation_result = [r \in Run |-> <<>>]
    /\ results = [r \in Run |-> <<>>]
    /\ raised = [r \in Run |-> "None"]
    /\ proc = [r \in Run |-> "none"]
    /\ stdin = [r \in Run |-> <<>>]
    /\ measured = [r \in Run |-> NoMeasure]
    /\ input_file = <<>>
    /\ output_file = <<>>
    /\ temp_exists = FALSE
    /\ win32 = FALSE
    /\ time_available = TRUE
    /\ orphan = <<>>
    /\ stdout = [r \in Run |-> <<>>]

harness ==
    <<platform, test_cases, pc, i, temp_cpp, compilation_result, results,
      raised, proc, stdin, measured, input_file, output_file, temp_exists,
      win32, time_available, orphan, stdout>>

\* ------------------------------------------------------------------ actions

Set(f, r, v) == [f EXCEPT ![r] = v]

CurrentCase(r) == test_cases[r][i[r]]

\* main: `if not test_cases: ... sys.exit(1)`.
CheckTestCases(r) ==
    /\ pc[r] = "parsed"
    /\ pc' = Set(pc, r, IF test_cases[r] = <<>> THEN "no_tests" ELSE "synth")
    /\ UNCHANGED <<platform, test_cases, i, temp_cpp, compilation_result,
                   results, raised, proc, stdin, measured, input_file,
                   output_file, temp_exists, win32, time_available, call,
                   orphan, stdout>>

\* main: for LeetCode, create_leetcode_test_runner writes the driver and
\* returns its path; a fault in it (reading the source, writing the driver)
\* is not caught.  Other platforms compile the source itself.
SynthesizeDriver(r) ==
    /\ pc[r] = "synth"
    /\ IF platform[r] = LEETCODE
       THEN \E written \in BOOLEAN :
              IF written
              THEN /\ temp_exists' = TRUE
                   /\ temp_cpp' = Set(temp_cpp, r, TempPath)
                   /\ pc' = Set(pc, r, "compile")
                   /\ UNCHANGED raised
              ELSE /\ pc' = Set(pc, r, "crashed")
                   /\ raised' = Set(raised, r, "create_leetcode_test_runner")
                   /\ UNCHANGED <<temp_exists, temp_cpp>>
       ELSE /\ pc' = Set(pc, r, "compile")
            /\ UNCHANGED <<temp_exists, temp_cpp, raised>>
    /\ UNCHANGED <<platform, test_cases, i, compilation_result, results, proc,
                   stdin, measured, input_file, output_file, win32,
                   time_available, call,
                   orphan, stdout>>

\* main: compilation_result = compile_cpp(...), then the success test.
Compile(r) ==
    /\ pc[r] = "compile"
    /\ \E tool \in Toolchain :
         IF CompileRaises(tool)
         THEN /\ pc' = Set(pc, r, "crashed")
              /\ raised' = Set(raised, r, "compile_cpp")
              /\ UNCHANGED compilation_result
         ELSE /\ compilation_result' =
                    Set(compilation_result, r, <<CompileReturns(tool)>>)
              /\ pc' = Set(pc, r, AfterCompile(CompileReturns(tool)))
              /\ UNCHANGED raised
    /\ UNCHANGED <<platform, test_cases, i, temp_cpp, results, proc, stdin,
                   measured, input_file, output_file, temp_exists, win32,
                   time_available, call,
                   orphan, stdout>>

\* main's `results.append(result)` and the step of the loop.
AppendResult(rs, result) == Append(rs, result)

\* run_test_case returns result to main, which appends it and moves on.
Return(r, result) ==
    /\ results' = Set(results, r, AppendResult(results[r], result))
    /\ i' = Set(i, r, i[r] + 1)
    /\ pc' = Set(pc, r, "loop")
    /\ UNCHANGED raised

\* An exception leaves run_test_case and main.
Propagate(r) ==
    /\ pc' = Set(pc, r, "crashed")
    /\ raised' = Set(raised, r, "run_test_case")
    /\ UNCHANGED <<results, i>>

\* An exception raised inside run_test_case's try block.
RaiseInTry(r, exc, result) ==
    IF Caught(exc) THEN Return(r, result) ELSE Propagate(r)

\* run_test_case up to the try block: os.makedirs(io_dir) and the write of
\* io/input.txt.  A fault here is outside the try block.
PrepareInput(r) ==
    /\ pc[r] = "loop"
    /\ i[r] <= Len(test_cases[r])
    /\ \E written \in BOOLEAN :
         IF written
         THEN /\ input_file' =
                    ScratchInput(platform[r], CurrentCase(r).input_data)
              /\ pc' = Set(pc, r, "launch")
              /\ UNCHANGED <<raised, results, i>>
         ELSE /\ Propagate(r)
              /\ UNCHANGED input_file
    /\ UNCHANGED <<platform, test_cases, temp_cpp, compilation_result, proc,
                   stdin, measured, output_file, temp_exists, win32,
                   time_available, call,
                   orphan, stdout>>

\* subprocess.run blocks the caller until the child ends or the timeout
\* expires.
AfterLaunchWithoutWaiting == "read"

AfterLaunch == "running"

\* Whether subprocess.run can start the command: on a non-Windows host the
\* command is /usr/bin/time, and without it nothing is started.
CanLaunch == win32 \/ time_available

\* The `with open(input_file, 'r'), open(output_file, 'w')` and the start of
\* subprocess.run: io/output.txt is truncated, then the child is started on
\* the current content of io/input.txt, or starting it raises.
StartProcess(r) ==
    /\ pc[r] = "launch"
    /\ output_file' = <<>>
    /\ stdout' = Set(stdout, r, <<>>)
    /\ \E started \in (IF CanLaunch THEN BOOLEAN ELSE {FALSE}) :
         IF started
         THEN /\ proc' = Set(proc, r, "running")
              /\ stdin' = Set(stdin, r, input_file)
              /\ pc' = Set(pc, r, AfterLaunch)
              /\ UNCHANGED <<raised, results, i>>
         ELSE /\ RaiseInTry(r, "Exception",
                            ErrorResult(CurrentCase(r), "No such file or directory"))
              /\ UNCHANGED <<proc, stdin>>
    /\ UNCHANGED <<platform, test_cases, temp_cpp, compilation_result,
                   measured, input_file, temp_exists, win32, time_available, call,
                   orphan>>

\* The child ends within the timeout, having written content to its standard
\* output; the caller takes execution_time and memory_used.
ProcessExits(r) ==
    /\ proc[r] = "running"
    /\ \E content \in OutputSamples, returncode \in {0, 1},
          prog_stderr \in StderrSamples, elapsed \in ElapsedSamples :
         /\ output_file' = content
         /\ stdout' = Set(stdout, r, content)
         /\ measured' =
              Set(measured, r,
                  IF win32
                  THEN [returncode |-> returncode, execution_time |-> elapsed,
                        memory_used |-> NA]
                  ELSE [returncode |-> returncode] @@
                       Measured(TimeStderr(prog_stderr, returncode, elapsed, "2048"),
                                elapsed))
    /\ proc' = Set(proc, r, "ended")
    /\ pc' = Set(pc, r, IF pc[r] = "running" THEN "read" ELSE pc[r])
    /\ UNCHANGED <<platform, test_cases, i, temp_cpp, compilation_result,
                   results, raised, stdin, input_file, temp_exists, win32,
                   time_available, call,
                   orphan>>

\* The timeout expires: subprocess.run kills the child and raises
\* TimeoutExpired; partial is what the child had written by then.  Off
\* Windows the child is /usr/bin/time: the executable it started is not
\* killed with it and keeps io/output.txt open at the place it had reached.
ProcessTimesOut(r) ==
    /\ proc[r] = "running"
    /\ pc[r] = "running"
    /\ \E partial \in OutputSamples :
         /\ output_file' = partial
         /\ orphan' = IF win32 THEN orphan ELSE <<Len(partial)>>
         /\ RaiseInTry(r, "TimeoutExpired", TimeoutResult(CurrentCase(r), partial))
    /\ proc' = Set(proc, r, "killed")
    /\ UNCHANGED <<platform, test_cases, temp_cpp, compilation_result, stdin,
                   measured, input_file, temp_exists, win32, time_available, call,
                   stdout>>

\* The read of io/output.txt, the comparison and the return.
ReadOutput(r) ==
    /\ pc[r] = "read"
    /\ IF Decodable(output_file)
       THEN Return(r, CompletedResult(CurrentCase(r), output_file,
                                      measured[r].returncode,
                                      measured[r].execution_time,
                                      measured[r].memory_used))
       ELSE RaiseInTry(r, "Exception",
                       ErrorResult(CurrentCase(r), "can't decode byte"))
    /\ UNCHANGED <<platform, test_cases, temp_cpp, compilation_result, proc,
                   stdin, measured, input_file, output_file, temp_exists,
                   win32, time_available, call,
                   orphan, stdout>>

\* f.write of data at place offset of a file: a file that is shorter is
\* filled with NUL bytes up to there.
WriteAt(file, offset, data) ==
    LET padded == file \o [k \in 1..(offset - Len(file)) |-> "NUL"]
    IN  SubSeq(padded, 1, offset) \o data
          \o SubSeq(padded, offset + Len(data) + 1, Len(padded))

\* What an executable that outlived its timeout writes before it ends.
LateSamples == { <<"5">> }

\* An executable left running by a timeout writes to its standard output,
\* which is still io/output.txt, and ends.
OrphanWrites ==
    /\ orphan # <<>>
    /\ \E data \in LateSamples :
          output_file' = WriteAt(output_file, orphan[1], data)
    /\ orphan' = <<>>
    /\ UNCHANGED <<platform, test_cases, pc, i, temp_cpp, compilation_result,
                   results, raised, proc, stdin, measured, input_file,
                   temp_exists, win32, time_available, call, stdout>>

\* main after the loop: display_results, then os.remove(temp_cpp) for
\* LeetCode.
Finish(r) ==
    /\ pc[r] = "loop"
    /\ i[r] > Len(test_cases[r])
    /\ temp_exists' =
         IF platform[r] = LEETCODE /\ temp_cpp[r] # "None"
         THEN FALSE ELSE temp_exists
    /\ pc' = Set(pc, r, "done")
    /\ UNCHANGED <<platform, test_cases, i, temp_cpp, compilation_result,
                   results, raised, proc, stdin, measured, input_file,
                   output_file, win32, time_available, call,
                   orphan, stdout>>

\* The user interrupts the run: KeyboardInterrupt is caught nowhere, and
\* subprocess.run kills a running child before it lets the exception pass.
Interrupt(r) ==
    /\ pc[r] \in {"synth", "compile", "loop", "launch", "running", "read"}
    /\ pc' = Set(pc, r, "interrupted")
    /\ raised' = Set(raised, r, "KeyboardInterrupt")
    /\ proc' = Set(proc, r, IF proc[r] = "running" THEN "killed" ELSE proc[r])
    /\ UNCHANGED <<platform, test_cases, i, temp_cpp, compilation_result,
                   results, stdin, measured, input_file, output_file,
                   temp_exists, win32, time_available, call,
                   orphan, stdout>>

Next ==
    \/ \E r \in Run :
          \/ CheckTestCases(r)
          \/ SynthesizeDriver(r)
          \/ Compile(r)
          \/ PrepareInput(r)
          \/ StartProcess(r)
          \/ ProcessExits(r)
          \/ ProcessTimesOut(r)
          \/ ReadOutput(r)
          \/ Finish(r)
          \/ Interrupt(r)
    \/ OrphanWrites

Spec == Init /\ [][Next]_vars

SpecConcurrent == InitConcurrent /\ [][Next]_vars

\* ------------------------------------------------------------------- claims

Terminated(r) ==
    pc[r] \in {"done", "no_tests", "compile_failed", "crashed", "interrupted"}

CompileFailed(r) ==
    compilation_result[r] # <<>> /\ ~compilation_result[r][1].success

\* results[r] holds one outcome for each of the first n cases, in their order.
OutcomesInOrder(rs, cases, n) ==
    /\ Len(rs) = n
    /\ \A k \in 1..n : rs[k].test_case = cases[k]

\* C1: on every exit path of main reached after create_leetcode_test_runner
\* has written the driver (completion, failed compilation, a fault in a case,
\* an interrupt), io/temp_leetcode_runner.cpp no longer exists at the end.
C1_DriverRemovedOnEveryExit ==
    \A r \in Run :
        (Terminated(r) /\ temp_cpp[r] = TempPath) => ~temp_exists

\* C2: once compile_cpp has returned success == false, the run is over and
\* run_test_case is never invoked: no outcome is recorded, no scratch file is
\* written and no process is started.
C2_NoCaseAfterFailedCompile ==
    [][\A r \in Run :
         CompileFailed(r)' =>
            /\ pc'[r] = "compile_failed"
            /\ results'[r] = <<>>
            /\ proc'[r] = "none"
            /\ stdin'[r] = <<>>
            /\ input_file' = input_file
            /\ output_file' = output_file]_vars

C2_Witness ==
    \E r \in Run :
        /\ CompileFailed(r)
        /\ platform[r] = LEETCODE
        /\ Len(test_cases[r]) = 2
        /\ compilation_result[r][1].error_message = <<"Compilation timeout">>

\* The step is a timeout, a failure to start the process or a failure to read
\* its output, in the current case of run r.
CaseFaultStep(r) ==
    \/ ProcessTimesOut(r)
    \/ StartProcess(r) /\ proc'[r] # "running"
    \/ ReadOutput(r) /\ ~Decodable(output_file)

C4_CasesStrictlySequential ==
    [][\A r \in Run :
         (PrepareInput(r) \/ StartProcess(r)) =>
            /\ proc[r] # "running"
            /\ OutcomesInOrder(results[r], test_cases[r], i[r] - 1)]_vars

C4_Witness ==
    \E r \in Run :
        /\ pc[r] = "running"
        /\ i[r] = 2
        /\ Len(results[r]) = 1
        /\ results[r][1].actual_output = <<"TIMEOUT">>

\* C5: two invocations in one workspace never interleave their write-input,
\* execute and read-output steps: a process is started on the input written
\* for its own case, and while an invocation is between starting its process
\* and reading the output, io/output.txt changes only by that process.
C5_InvocationsDoNotInterleave ==
    [][\A r \in Run :
         /\ (StartProcess(r) /\ proc'[r] = "running") =>
               stdin'[r] = ScratchInput(platform[r], CurrentCase(r).input_data)
         /\ (pc[r] \in {"running", "read"} /\ output_file' # output_file) =>
               proc'[r] # proc[r]]_vars

\* C6: when the process exceeds the 5-second timeout the outcome is
\* (passed = false, "TIMEOUT", 5.0, "N/A"), whatever the process had written
\* to io/output.txt.
C6_TimeoutOutcome ==
    [][\A r \in Run :
         ProcessTimesOut(r) =>
            results'[r] = Append(results[r],
                                 [test_case |-> test_cases[r][i[r]],
                                  actual_output |-> <<"TIMEOUT">>,
                                  passed |-> FALSE,
                                  execution_time |-> 5,
                                  memory_used |-> <<"N/A">>])]_vars

C6_Witness ==
    \E r \in Run :
        /\ pc[r] = "loop"
        /\ Len(results[r]) = 1
        /\ results[r][1].actual_output = <<"TIMEOUT">>
        /\ results[r][1].execution_time = 5
        /\ output_file = results[r][1].test_case.expected_output

IsErrorText(text) == Len(text) = 2 /\ text[1] = "ERROR: "

\* C7: no fault inside run_test_case (creating the scratch directory, writing
\* the input, starting the process, reading the output) propagates to the
\* caller; each becomes an outcome (passed = false, fault text, 0, "N/A").
C7_FaultsBecomeOutcomes ==
    \A r \in Run :
        /\ raised[r] # "run_test_case"
        /\ \A k \in 1..Len(results[r]) :
              IsErrorText(results[r][k].actual_output) =>
                 /\ ~results[r][k].passed
                 /\ results[r][k].execution_time = 0
                 /\ results[r][k].memory_used = <<"N/A">>

\* C8: when the process ends within the timeout, passed is true exactly when
\* the stripped content of io/output.txt equals the stripped expected output,
\* whatever the exit status and the standard error of the process.
C8_PassedIffOutputsEqual ==
    [][\A r \in Run :
         ReadOutput(r) =>
            /\ Len(results'[r]) = Len(results[r]) + 1
            /\ results'[r][Len(results'[r])].passed =
                  (Strip(output_file) = Strip(test_cases[r][i[r]].expected_output))]_vars

C8_Witness ==
    \E r \in Run :
        /\ pc[r] = "loop"
        /\ Len(results[r]) = 1
        /\ results[r][1].passed
        /\ output_file = <<"3", "\n">>
        /\ measured[r].returncode = 1

\* C9: without /usr/bin/time on a non-Windows host the executable is still
\* run for each case, memory is reported as unavailable, and passed is
\* decided by comparing the executable's output with the expected output.
C9_RunsWithoutTimeUtility ==
    \A r \in Run :
        (~win32 /\ ~time_available) =>
            \A k \in 1..Len(results[r]) :
                /\ proc[r] # "none"
                /\ ~IsErrorText(results[r][k].actual_output)
                /\ results[r][k].memory_used = <<"N/A">>
                /\ results[r][k].passed =
                      (results[r][k].actual_output =
                          Strip(test_cases[r][k].expected_output))

\* C10: compile_cpp never propagates a fault: whatever the toolchain and the
\* file system do, the caller gets a CompilationResult, with success only
\* with an executable path.
C10_CompileNeverRaises ==
    \A r \in Run :
        /\ raised[r] # "compile_cpp"
        /\ (pc[r] \in {"loop", "launch", "running", "read", "done"}) =>
              /\ compilation_result[r] # <<>>
              /\ compilation_result[r][1].success
              /\ compilation_result[r][1].executable_path # ""

\* C11: every CompilationResult of compile_cpp has a non-empty diagnostic
\* exactly when success is false, and a non-empty executable path exactly
\* when success is true.
C11_DiagnosticIffFailed ==
    \A r \in Run :
        compilation_result[r] # <<>> =>
            /\ (compilation_result[r][1].error_message # <<>>)
                  <=> ~compilation_result[r][1].success
            /\ (compilation_result[r][1].executable_path # "")
                  <=> compilation_result[r][1].success

\* --------------------------------------------------------- parse_test_cases
\* Fixture text is a sequence of atoms: single characters, and the words the
\* parser looks for ("---", "Function:", "Sample Input:", "Sample Output:")
\* each as one atom, so that a word can stand anywhere in a line.

\* Largest number of lines of a tests block.
MaxLines == 5

\* str.split(sep) for a one-atom separator: the pieces between the
\* occurrences of sep, empty pieces included.  acc is the piece being read.
RECURSIVE SplitOnFrom(_, _, _)
SplitOnFrom(s, sep, acc) ==
    IF s = <<>> THEN <<acc>>
    ELSE IF Head(s) = sep
         THEN <<acc>> \o SplitOnFrom(Tail(s), sep, <<>>)
         ELSE SplitOnFrom(Tail(s), sep, Append(acc, Head(s)))

SplitOn(s, sep) == SplitOnFrom(s, sep, <<>>)

\* sep.join(pieces)
RECURSIVE Join(_, _)
Join(pieces, sep) ==
    IF pieces = <<>> THEN <<>>
    ELSE IF Len(pieces) = 1 THEN pieces[1]
         ELSE pieces[1] \o <<sep>> \o Join(Tail(pieces), sep)

\* line.startswith(word) for a stripped line.
StartsWith(line, word) == line # <<>> /\ line[1] = word

\* line.replace(word, "")
Without(line, word) == SelectSeq(line, LAMBDA a : a # word)

NonEmpty(line) == line # <<>>

\* [line.strip() for line in block.strip().split('\n') if line.strip()]
NonBlankLines(block) ==
    LET raw == SplitOn(Strip(block), "\n")
    IN  SelectSeq([k \in 1..Len(raw) |-> Strip(raw[k])], NonEmpty)

\* The value of a keyed line, or "" when the line lacks the prefix.
FieldValue(line, prefix) ==
    IF StartsWith(line, prefix) THEN Strip(Without(line, prefix)) ELSE <<>>

\* The value of the first line that carries the field, or "".
FirstField(lines, prefix) ==
    IF \E j \in 1..Len(lines) : FieldValue(lines[j], prefix) # <<>>
    THEN FieldValue(lines[CHOOSE j \in 1..Len(lines) :
                            /\ FieldValue(lines[j], prefix) # <<>>
                            /\ \A k \in 1..(j - 1) :
                                  FieldValue(lines[k], prefix) = <<>>],
                    prefix)
    ELSE <<>>

KeyedCaseScanningLines(block) ==
    LET lines == NonBlankLines(block)
        input_data == FirstField(lines, "Sample Input:")
        expected_output == FirstField(lines, "Sample Output:")
    IN  IF input_data # <<>> /\ expected_output # <<>>
        THEN <<input_data, expected_output>>
        ELSE <<>>

\* The LeetCode branch for one block: <<>> when the block is dropped, else
\* <<input_data, expected_output>>.
KeyedCase(block) ==
    LET lines == NonBlankLines(block)
    IN  IF Len(lines) >= 3
        THEN LET input_data == FieldValue(lines[2], "Sample Input:")
                 expected_output == FieldValue(lines[3], "Sample Output:")
             IN  IF input_data # <<>> /\ expected_output # <<>>
                 THEN <<input_data, expected_output>>
                 ELSE <<>>
        ELSE <<>>

\* The 1-based index of the first line that is blank after stripping, or 0.
FirstBlank(lines) ==
    IF \E j \in 1..Len(lines) : Strip(lines[j]) = <<>>
    THEN CHOOSE j \in 1..Len(lines) :
            /\ Strip(lines[j]) = <<>>
            /\ \A k \in 1..(j - 1) : Strip(lines[k]) # <<>>
    ELSE 0

FreeformCaseTrailingTrim(block) ==
    LET lines == SplitOn(Strip(block), "\n")
        blank == FirstBlank(lines)
    IN  IF Len(lines) >= 2 /\ blank > 1
        THEN LET input_data == Join(SubSeq(lines, 1, blank - 1), "\n")
                 expected_output ==
                     RStrip(Join(SubSeq(lines, blank + 1, Len(lines)), "\n"))
             IN  IF Strip(input_data) # <<>> /\ expected_output # <<>>
                 THEN <<input_data, expected_output>>
                 ELSE <<>>
        ELSE <<>>

\* The branch of the other platforms for one block.
FreeformCase(block) ==
    LET lines == SplitOn(Strip(block), "\n")
        blank == FirstBlank(lines)
    IN  IF Len(lines) >= 2 /\ blank > 1
        THEN LET input_data == Join(SubSeq(lines, 1, blank - 1), "\n")
                 expected_output ==
                     Strip(Join(SubSeq(lines, blank + 1, Len(lines)), "\n"))
             IN  IF Strip(input_data) # <<>> /\ expected_output # <<>>
                 THEN <<input_data, expected_output>>
                 ELSE <<>>
        ELSE <<>>

BlockCase(plat, block) ==
    IF plat = LEETCODE THEN KeyedCase(block) ELSE FreeformCase(block)

\* TestCase(input_data, expected_output, i + 1): position is i + 1, the
\* 1-based place of the block in the split.
TestNumberRenumbered(position, accepted) == Len(accepted) + 1

TestNumber(position, accepted) == position

\* The loop over enumerate(test_blocks); accepted is test_cases so far.
RECURSIVE ParseBlocks(_, _, _, _)
ParseBlocks(plat, blocks, position, accepted) ==
    IF position > Len(blocks) THEN accepted
    ELSE LET c == BlockCase(plat, blocks[position])
         IN  ParseBlocks(plat, blocks, position + 1,
                 IF c = <<>> THEN accepted
                 ELSE Append(accepted,
                             [input_data |-> c[1], expected_output |-> c[2],
                              test_number |-> TestNumber(position, accepted)]))

\* tests_content.split('---'): at every occurrence of the three dashes.
TestBlocks(tests_content) == SplitOn(tests_content, "---")

\* parse_test_cases on the body of the tests block.
ParseTestCases(tests_content, plat) ==
    ParseBlocks(plat, TestBlocks(tests_content), 1, <<>>)

\* Lines a tests block is made of, by layout.
LineSamples(plat) ==
    IF plat = LEETCODE
    THEN { <<"Function:", " ", "f">>, <<"Sample Input:", " ", "1">>,
           <<"Sample Output:", " ", "2">>, <<"Sample Input:">>,
           <<"Sample Output:", " ", "2", "---", "2">>, <<"---">>, <<>> }
    ELSE { <<"a">>, <<" ", "b">>, <<"a", "---", "b">>, <<" ">>, <<"---">>, <<>> }

\* "3 4\n\n7\n---\n5 5\n\n10\n"
ScenarioA ==
    <<"3", " ", "4", "\n", "\n", "7", "\n", "---", "\n",
      "5", " ", "5", "\n", "\n", "1", "0", "\n">>

\* The bodies of at most maxlines lines.
TestsContents(plat, maxlines) ==
    UNION { { Join(ls, "\n") : ls \in [1..n -> LineSamples(plat)] } :
            n \in 1..maxlines }

InitParser ==
    /\ HarnessIdle
    /\ \E plat \in {LEETCODE, CODEFORCES} :
         \E text \in TestsContents(plat, MaxLines)
                       \cup (IF plat = CODEFORCES THEN {ScenarioA} ELSE {}) :
            call = [fn |-> "parse_test_cases", tests_content |-> text,
                    platform |-> plat, ret |-> <<>>]

\* One call of parse_test_cases returns.
ParseCall ==
    /\ call.fn = "parse_test_cases"
    /\ call.ret = <<>>
    /\ call' = [call EXCEPT
                  !.ret = <<ParseTestCases(call.tests_content, call.platform)>>]
    /\ UNCHANGED harness

NextParser == ParseCall

SpecParser == InitParser /\ [][NextParser]_vars

\* A call of parse_test_cases has returned.
ParserDone == call.fn = "parse_test_cases" /\ call.ret # <<>>

\* The cases returned from block number n of the split.
CasesOfBlock(cases, n) ==
    { k \in 1..Len(cases) : cases[k].test_number = n }

\* C12: parse_test_cases returns exactly the well-formed segments, in
\* fixture order, each numbered with the 1-based position of its segment in
\* the `---` split, dropped segments counted.
C12_CasesNumberedByPosition ==
    ParserDone =>
        LET cases == call.ret[1]
            blocks == TestBlocks(call.tests_content)
        IN  /\ \A k \in 1..Len(cases) :
                  /\ cases[k].test_number \in 1..Len(blocks)
                  /\ BlockCase(call.platform, blocks[cases[k].test_number])
                        = <<cases[k].input_data, cases[k].expected_output>>
            /\ \A k, l \in 1..Len(cases) :
                  k < l => cases[k].test_number < cases[l].test_number
            /\ \A n \in 1..Len(blocks) :
                  BlockCase(call.platform, blocks[n]) # <<>> =>
                     CasesOfBlock(cases, n) # {}

C12_Witness ==
    /\ ParserDone
    /\ Len(TestBlocks(call.tests_content)) = 2
    /\ Len(call.ret[1]) = 1
    /\ call.ret[1][1].test_number = 2

\* Some non-blank line of the block carries the field with a non-empty value.
HasField(block, prefix) ==
    \E j \in 1..Len(NonBlankLines(block)) :
        FieldValue(NonBlankLines(block)[j], prefix) # <<>>

\* C13 as claimed: in keyed mode a segment yields a case whenever its
\* non-blank lines include a Sample Input: line and a Sample Output: line
\* with non-empty values, wherever they stand and with or without a
\* Function: line, and yields none otherwise.
C13_KeyedFieldsAnywhere ==
    (ParserDone /\ call.platform = LEETCODE) =>
        \A n \in 1..Len(TestBlocks(call.tests_content)) :
            (CasesOfBlock(call.ret[1], n) # {})
               <=> /\ HasField(TestBlocks(call.tests_content)[n], "Sample Input:")
                   /\ HasField(TestBlocks(call.tests_content)[n], "Sample Output:")

\* C13 as amended: a segment yields a case exactly when it has at least three
\* non-blank lines, the second prefixed Sample Input: and the third prefixed
\* Sample Output:, both with a non-empty value; those values are the case's
\* input and expected output, and the first line is not looked at.
C13_KeyedFieldsByPosition ==
    (ParserDone /\ call.platform = LEETCODE) =>
        \A n \in 1..Len(TestBlocks(call.tests_content)) :
            LET lines == NonBlankLines(TestBlocks(call.tests_content)[n])
                found == CasesOfBlock(call.ret[1], n)
            IN  IF /\ Len(lines) >= 3
                   /\ FieldValue(lines[2], "Sample Input:") # <<>>
                   /\ FieldValue(lines[3], "Sample Output:") # <<>>
                THEN /\ Cardinality(found) = 1
                     /\ \A k \in found :
                           /\ call.ret[1][k].input_data =
                                 Strip(Without(lines[2], "Sample Input:"))
                           /\ call.ret[1][k].expected_output =
                                 Strip(Without(lines[3], "Sample Output:"))
                ELSE found = {}

C13_Witness ==
    /\ ParserDone
    /\ call.platform = LEETCODE
    /\ Len(call.ret[1]) = 1
    /\ call.ret[1][1].test_number = 1
    /\ ~StartsWith(NonBlankLines(TestBlocks(call.tests_content)[1])[1], "Function:")

\* The segments between the lines that consist of `---`.  acc holds the lines
\* of the segment being read.
RECURSIVE SegmentsOfLines(_, _)
SegmentsOfLines(lines, acc) ==
    IF lines = <<>> THEN <<Join(acc, "\n")>>
    ELSE IF Strip(Head(lines)) = <<"---">>
         THEN <<Join(acc, "\n")>> \o SegmentsOfLines(Tail(lines), <<>>)
         ELSE SegmentsOfLines(Tail(lines), Append(acc, Head(lines)))

\* C14: the body is split only at lines consisting of `---`; three dashes
\* inside an input or output line start no segment and change neither the
\* number nor the numbering of the cases.
C14_SplitAtSeparatorLinesOnly ==
    ParserDone =>
        call.ret[1] =
            ParseBlocks(call.platform,
                        SegmentsOfLines(SplitOn(call.tests_content, "\n"), <<>>),
                        1, <<>>)

\* The case C15 describes for a freeform segment, with the expected output
\* trimmed by trim: <<>> or <<input, expected>>.
FreeformAsClaimed(block, trim(_)) ==
    LET lines == SplitOn(Strip(block), "\n")
        blank == FirstBlank(lines)
        input == Join(SubSeq(lines, 1, blank - 1), "\n")
        expected == trim(Join(SubSeq(lines, blank + 1, Len(lines)), "\n"))
    IN  IF blank = 0 \/ Strip(input) = <<>> \/ Strip(expected) = <<>>
        THEN <<>>
        ELSE <<input, expected>>

FreeformAgrees(trim(_)) ==
    \A n \in 1..Len(TestBlocks(call.tests_content)) :
        LET claimed == FreeformAsClaimed(TestBlocks(call.tests_content)[n], trim)
            found == CasesOfBlock(call.ret[1], n)
        IN  IF claimed = <<>> THEN found = {}
            ELSE /\ Cardinality(found) = 1
                 /\ \A k \in found :
                       /\ call.ret[1][k].input_data = claimed[1]
                       /\ call.ret[1][k].expected_output = claimed[2]

ScenarioACases ==
    << [input_data |-> <<"3", " ", "4">>, expected_output |-> <<"7">>,
        test_number |-> 1],
       [input_data |-> <<"5", " ", "5">>, expected_output |-> <<"1", "0">>,
        test_number |-> 2] >>

\* C15 as claimed: in freeform mode the input is the newline-join of the
\* lines before the segment's first blank line and the expected output the
\* newline-join of the lines after it with trailing whitespace trimmed; a
\* segment with no blank line, or an empty input or expected output, yields
\* no case; Scenario A yields ("3 4","7") and ("5 5","10").
C15_FreeformTrailingTrimmed ==
    (ParserDone /\ call.platform # LEETCODE) =>
        /\ FreeformAgrees(RStrip)
        /\ call.tests_content = ScenarioA => call.ret[1] = ScenarioACases

\* C15 as amended: the same, with the expected output trimmed of leading and
\* trailing whitespace.
C15_FreeformTrimmed ==
    (ParserDone /\ call.platform # LEETCODE) =>
        /\ FreeformAgrees(Strip)
        /\ call.tests_content = ScenarioA => call.ret[1] = ScenarioACases

C15_Witness ==
    /\ ParserDone
    /\ call.tests_content = ScenarioA
    /\ Len(call.ret[1]) = 2

\* ------------------------------------------- parse_leetcode_method_signature
\* A declaration is a sequence of atoms: words, "(", ")", "," and spaces.

\* Largest number of whitespace-separated parts of a declaration.
MaxParts == 4

\* str.find(a): the 1-based place of the first a in s, 0 when there is none.
Find(s, a) ==
    IF \E k \in 1..Len(s) : s[k] = a
    THEN CHOOSE k \in 1..Len(s) : s[k] = a /\ \A j \in 1..(k - 1) : s[j] # a
    ELSE 0

\* return "int", "solution", ""
Fallback == << <<"int">>, <<"solution">>, <<>> >>

\* The function from match.group(1) on; group is <<>> when the pattern does
\* not match, else <<text>>.
ParseSignature(group) ==
    IF group = <<>> THEN Fallback
    ELSE LET method_signature == Strip(group[1])
             parts == Split(method_signature)
             param_start == Find(method_signature, "(")
             param_end == Find(method_signature, ")")
         IN  IF Len(parts) >= 2 /\ param_start # 0 /\ param_end # 0
             THEN << parts[1],
                     SplitOn(parts[2], "(")[1],
                     Strip(SubSeq(method_signature, param_start + 1,
                                  param_end - 1)) >>
             ELSE Fallback

\* Parts a captured declaration is made of.
PartSamples ==
    { <<"int">>, <<"long">>, <<"f">>, <<"f", "(", ")">>, <<"f", "(", "int">>,
      <<"a", ")">>, <<"(", "f", ")", "(", ")">> }

Declarations(maxparts) ==
    UNION { { Join(ps, " ") : ps \in [1..n -> PartSamples] } : n \in 1..maxparts }

InitSignature ==
    /\ HarnessIdle
    /\ \E group \in {<<>>} \cup { <<d>> : d \in Declarations(MaxParts) } :
          call = [fn |-> "parse_leetcode_method_signature", group |-> group,
                  ret |-> <<>>]

\* One call of parse_leetcode_method_signature returns.
SignatureCall ==
    /\ call.fn = "parse_leetcode_method_signature"
    /\ call.ret = <<>>
    /\ call' = [call EXCEPT !.ret = <<ParseSignature(call.group)>>]
    /\ UNCHANGED harness

NextSignature == SignatureCall

SpecSignature == InitSignature /\ [][NextSignature]_vars

SignatureDone ==
    call.fn = "parse_leetcode_method_signature" /\ call.ret # <<>>

\* The tokens of the declaration that stand before its first "(".
TokensBeforeParen(decl) ==
    Split(SubSeq(decl, 1, Find(decl, "(") - 1))

\* A declaration `<return-type tokens> <name>(<params>)`.
IsFunctionDeclaration(decl) ==
    /\ Find(decl, "(") # 0
    /\ Find(decl, ")") > Find(decl, "(")
    /\ Len(TokensBeforeParen(decl)) >= 2

\* C16: for every matched member-function declaration the callable name is
\* the last token before "(" and the return type is every prior token joined
\* by single spaces, also when the return type has more than one token.
C16_NameIsLastTokenBeforeParen ==
    (SignatureDone /\ call.group # <<>>
       /\ IsFunctionDeclaration(Strip(call.group[1]))) =>
        LET toks == TokensBeforeParen(Strip(call.group[1]))
        IN  /\ call.ret[1][2] = toks[Len(toks)]
            /\ call.ret[1][1] = Join(SubSeq(toks, 1, Len(toks) - 1), " ")

\* C17: extraction has two kinds of result: the fallback signature for a
\* text with no declaration or a malformed one (fewer than two tokens, no
\* "(" or ")", no callable name), else a signature whose name and return
\* type are both non-empty.
C17_FallbackOrFullSignature ==
    SignatureDone =>
        /\ call.ret[1][1] # <<>>
        /\ call.ret[1][2] # <<>>
        /\ (\/ call.group = <<>>
            \/ Len(Split(call.group[1])) < 2
            \/ Find(call.group[1], "(") = 0
            \/ Find(call.group[1], ")") = 0) => call.ret[1] = Fallback

\* --------------------------------------------- generate_leetcode_input_parser
\* A parameter list is a sequence of atoms: type words ("int",
\* "vector<int>", ...), names, "&", "*", "," and spaces.

\* Largest number of parameters of a declaration.
MaxParams == 2

Range(s) == { s[k] : k \in 1..Len(s) }

\* str.strip('&*') of one token.
RECURSIVE StripDecoration(_)
StripDecoration(tok) ==
    IF tok # <<>> /\ Head(tok) \in {"&", "*"} THEN StripDecoration(Tail(tok))
    ELSE IF tok # <<>> /\ tok[Len(tok)] \in {"&", "*"}
         THEN StripDecoration(SubSeq(tok, 1, Len(tok) - 1))
         ELSE tok

\* The loop over param_list: a parameter is taken only when it has at least
\* two whitespace-separated parts.
RECURSIVE ParamsFrom(_)
ParamsFrom(param_list) ==
    IF param_list = <<>> THEN <<>>
    ELSE LET param == Strip(Head(param_list))
             parts == Split(param)
         IN  IF param # <<>> /\ Len(parts) >= 2
             THEN << [param_type |-> Join(SubSeq(parts, 1, Len(parts) - 1), " "),
                      param_name |-> StripDecoration(parts[Len(parts)])] >>
                  \o ParamsFrom(Tail(param_list))
             ELSE ParamsFrom(Tail(param_list))

\* param_types and param_names, zipped.
ParamList(params) ==
    IF params = <<>> THEN <<>> ELSE ParamsFrom(SplitOn(params, ","))

\* The branch of the type dispatch that emits the parsing code.
ParsingStep(param_type) ==
    IF "vector<int>" \in Range(param_type) THEN "vector<int>"
    ELSE IF "vector<string>" \in Range(param_type) THEN "vector<string>"
    ELSE IF param_type = <<"int">> THEN "int"
    ELSE IF param_type = <<"string">> THEN "string"
    ELSE IF param_type = <<"bool">> THEN "bool"
    ELSE IF param_type = <<"char">> THEN "char"
    ELSE "default"

\* parsing_code as the list of its steps, and call_args.
GenerateParser(params) ==
    LET ps == ParamList(params)
    IN  [steps |-> [k \in 1..Len(ps) |->
                       [kind |-> ParsingStep(ps[k].param_type),
                        param_type |-> ps[k].param_type,
                        param_name |-> ps[k].param_name]],
         call_args |-> [k \in 1..Len(ps) |-> ps[k].param_name]]

\* ------------------------------------------------- the synthesized driver
\* The C++ the parsing code runs, step by step, on the scratch input. cin is
\* [rest, fail]: the characters not yet read and the stream's fail state.

DecimalDigits == <<"0", "1", "2", "3", "4", "5", "6", "7", "8", "9">>

IsDigit(c) == \E d \in 1..10 : DecimalDigits[d] = c

DigitValue(c) == (CHOOSE d \in 1..10 : DecimalDigits[d] = c) - 1

\* The longest prefix of s made of digits.
RECURSIVE DigitRun(_)
DigitRun(s) ==
    IF s # <<>> /\ IsDigit(Head(s)) THEN <<Head(s)>> \o DigitRun(Tail(s))
    ELSE <<>>

RECURSIVE DigitsValue(_, _)
DigitsValue(ds, acc) ==
    IF ds = <<>> THEN acc
    ELSE DigitsValue(Tail(ds), 10 * acc + DigitValue(Head(ds)))

\* Integer extraction shared by std::stoi and operator>>(int&): leading
\* whitespace skipped, an optional sign, then the digits; <<>> when there
\* is no digit, else <<value, characters left>>.
ScanInt(s) ==
    LET t == LStrip(s)
        signed == t # <<>> /\ Head(t) \in {"-", "+"}
        body == IF signed THEN Tail(t) ELSE t
        ds == DigitRun(body)
        magnitude == DigitsValue(ds, 0)
    IN  IF ds = <<>> THEN <<>>
        ELSE << IF signed /\ Head(t) = "-" THEN 0 - magnitude ELSE magnitude,
                SubSeq(body, Len(ds) + 1, Len(body)) >>

\* std::stoi(num): <<>> when it throws std::invalid_argument.
StoI(num) == IF ScanInt(num) = <<>> THEN <<>> ELSE <<ScanInt(num)[1]>>

\* getline(cin, line): the characters up to the next newline, which is
\* read and dropped; nothing read sets the fail state.
GetLine(cin) ==
    IF cin.fail \/ cin.rest = <<>>
    THEN [line |-> <<>>, cin |-> [rest |-> cin.rest, fail |-> TRUE]]
    ELSE LET nl == Find(cin.rest, "\n")
         IN  IF nl = 0
             THEN [line |-> cin.rest, cin |-> [rest |-> <<>>, fail |-> FALSE]]
             ELSE [line |-> SubSeq(cin.rest, 1, nl - 1),
                   cin |-> [rest |-> SubSeq(cin.rest, nl + 1, Len(cin.rest)),
                            fail |-> FALSE]]

\* A substr that keeps the opening bracket: line.substr(0, line.length() - 2).
SubstrFromStart(line) ==
    IF Len(line) < 2 THEN << line >>
    ELSE << SubSeq(line, 1, Len(line) - 2) >>

\* line.substr(1, line.length() - 2): <<>> when it throws std::out_of_range
\* (empty line), else <<text>>; on a one-character line the count wraps
\* around and the rest of the line, which is empty, is taken.
SubstrInner(line) ==
    IF line = <<>> THEN <<>>
    ELSE IF Len(line) = 1 THEN << <<>> >>
    ELSE << SubSeq(line, 2, Len(line) - 1) >>

\* while (getline(ss, num, ',')): the pieces between commas; a last empty
\* piece is not produced.
Pieces(line) ==
    LET ps == SplitOn(line, ",")
    IN  IF ps[Len(ps)] = <<>> THEN SubSeq(ps, 1, Len(ps) - 1) ELSE ps

\* A variable a failed stream never wrote: it holds whatever the stack held.
Indeterminate == [kind |-> "indeterminate", v |-> <<>>]

\* The step emitted for a "vector<int>" parameter. Every step yields
\* [kind, value, cin]; kind is "ok", "throws" (an exception nothing
\* catches) or "undefined".
VectorIntStep(cin) ==
    LET g == GetLine(cin)
        inner == SubstrInner(g.line)
        nums == IF inner = <<>> \/ inner[1] = <<>> THEN <<>> ELSE Pieces(inner[1])
    IN  IF inner = <<>> \/ \E k \in 1..Len(nums) : StoI(nums[k]) = <<>>
        THEN [kind |-> "throws", value |-> Indeterminate, cin |-> g.cin]
        ELSE [kind |-> "ok", cin |-> g.cin,
              value |-> [kind |-> "vector<int>",
                         v |-> [k \in 1..Len(nums) |-> StoI(nums[k])[1]]]]

\* if (str.front() == '"') str = str.substr(1, str.length() - 2);
Unquote(str) ==
    IF str[1] = "\"" THEN SubstrInner(str)[1] ELSE str

\* The step emitted for a "vector<string>" parameter; front() of an empty
\* piece is undefined.
VectorStringStep(cin) ==
    LET g == GetLine(cin)
        inner == SubstrInner(g.line)
        strs == IF inner = <<>> THEN <<>> ELSE Pieces(inner[1])
    IN  IF inner = <<>>
        THEN [kind |-> "throws", value |-> Indeterminate, cin |-> g.cin]
        ELSE IF \E k \in 1..Len(strs) : strs[k] = <<>>
        THEN [kind |-> "undefined", value |-> Indeterminate, cin |-> g.cin]
        ELSE [kind |-> "ok", cin |-> g.cin,
              value |-> [kind |-> "vector<string>",
                         v |-> [k \in 1..Len(strs) |-> Unquote(strs[k])]]]

\* int x; cin >> x;  A stream that has failed leaves x unwritten; a failed
\* extraction writes 0.
IntStep(cin) ==
    LET scan == ScanInt(cin.rest)
    IN  IF cin.fail
        THEN [kind |-> "ok", value |-> Indeterminate, cin |-> cin]
        ELSE IF scan = <<>>
        THEN [kind |-> "ok", value |-> [kind |-> "int", v |-> 0],
              cin |-> [rest |-> LStrip(cin.rest), fail |-> TRUE]]
        ELSE [kind |-> "ok", value |-> [kind |-> "int", v |-> scan[1]],
              cin |-> [rest |-> scan[2], fail |-> FALSE]]

\* The characters of s up to its first whitespace.
RECURSIVE Token(_)
Token(s) ==
    IF s = <<>> \/ Head(s) \in Whitespace THEN <<>>
    ELSE <<Head(s)>> \o Token(Tail(s))

\* string x; cin >> x;  (also the step of a type the dispatch does not
\* know: one whitespace-delimited token is extracted.)
TokenStep(cin, kind) ==
    LET t == LStrip(cin.rest)
        tok == Token(t)
    IN  IF cin.fail \/ tok = <<>>
        THEN [kind |-> "ok", value |-> [kind |-> kind, v |-> <<>>],
              cin |-> [rest |-> t, fail |-> TRUE]]
        ELSE [kind |-> "ok", value |-> [kind |-> kind, v |-> tok],
              cin |-> [rest |-> SubSeq(t, Len(tok) + 1, Len(t)), fail |-> FALSE]]

\* bool x; cin >> x;  reads an integer that has to be 0 or 1.
BoolStep(cin) ==
    LET r == IntStep(cin)
    IN  IF r.value.kind = "int" /\ r.value.v \notin {0, 1}
        THEN [r EXCEPT !.value = [kind |-> "int", v |-> 1], !.cin.fail = TRUE]
        ELSE r

\* char x; cin >> x;  the first character after the whitespace.
CharStep(cin) ==
    LET t == LStrip(cin.rest)
    IN  IF cin.fail THEN [kind |-> "ok", value |-> Indeterminate, cin |-> cin]
        ELSE IF t = <<>>
        THEN [kind |-> "ok", value |-> Indeterminate,
              cin |-> [rest |-> t, fail |-> TRUE]]
        ELSE [kind |-> "ok", value |-> [kind |-> "char", v |-> <<Head(t)>>],
              cin |-> [rest |-> Tail(t), fail |-> FALSE]]

Step(kind, cin) ==
    CASE kind = "vector<int>" -> VectorIntStep(cin)
      [] kind = "vector<string>" -> VectorStringStep(cin)
      [] kind = "int" -> IntStep(cin)
      [] kind = "bool" -> BoolStep(cin)
      [] kind = "char" -> CharStep(cin)
      [] OTHER -> TokenStep(cin, kind)

\* main of the driver up to the call: the steps in order; an exception ends
\* the process before the call.
RECURSIVE RunSteps(_, _, _)
RunSteps(steps, cin, received) ==
    IF steps = <<>> THEN [kind |-> "called", received |-> received]
    ELSE LET r == Step(Head(steps).kind, cin)
         IN  IF r.kind = "ok"
             THEN RunSteps(Tail(steps), r.cin, Append(received, r.value))
             ELSE [kind |-> IF r.kind = "throws" THEN "terminated"
                            ELSE "undefined",
                   received |-> received]

\* The driver run on a scratch input file.
RunDriver(steps, scratch) ==
    RunSteps(steps, [rest |-> scratch, fail |-> FALSE], <<>>)

\* ------------------------------------------ inputs of the synthesized driver

\* Decimal text of an integer, as a fixture author writes it.
RECURSIVE Decimal(_)
Decimal(n) ==
    IF n < 0 THEN <<"-">> \o Decimal(0 - n)
    ELSE IF n < 10 THEN <<DecimalDigits[n + 1]>>
    ELSE Decimal(n \div 10) \o <<DecimalDigits[(n % 10) + 1]>>

\* The fixture text of one argument value: `9`, `[2,7]`, `ab`, `["a","b"]`.
Render(value) ==
    CASE value.kind = "int" -> Decimal(value.v)
      [] value.kind = "vector<int>" ->
            <<"[">> \o Join([k \in 1..Len(value.v) |-> Decimal(value.v[k])], ",")
                    \o <<"]">>
      [] value.kind = "vector<string>" ->
            <<"[">> \o Join([k \in 1..Len(value.v) |->
                                <<"\"">> \o value.v[k] \o <<"\"">>], ",")
                    \o <<"]">>
      [] OTHER -> value.v

\* Parameter declarations as they stand between the commas of a signature.
ParamSamples ==
    << <<"int", " ", "target">>,
       <<"vector<int>", "&", " ", "nums">>,
       <<"vector<int>", " ", "&", "arr">>,
       <<"vector<int>", "&", "v">>,
       <<"string", " ", "s">>,
       <<"vector<string>", "&", " ", "words">> >>

\* Argument values of a fixture.
ValueSamples ==
    << [kind |-> "int", v |-> 9],
       [kind |-> "vector<int>", v |-> <<2, 7>>],
       [kind |-> "vector<int>", v |-> <<>>],
       [kind |-> "string", v |-> <<"a", "b">>],
       [kind |-> "vector<string>", v |-> << <<"a">>, <<"b">> >>] >>

\* A signature's parameter list with n distinct parameters, and a test case
\* whose input holds n values separated by spaces.
InitDriver ==
    /\ HarnessIdle
    /\ \E n \in 0..MaxParams :
       \E ps \in [1..n -> 1..Len(ParamSamples)], vs \in [1..n -> 1..Len(ValueSamples)] :
          /\ \A j, k \in 1..n : ps[j] = ps[k] => j = k
          /\ call = [fn |-> "driver",
                     params |-> Join([k \in 1..n |->
                                        IF k = 1 THEN ParamSamples[ps[k]]
                                        ELSE <<" ">> \o ParamSamples[ps[k]]], ","),
                     values |-> [k \in 1..n |-> ValueSamples[vs[k]]],
                     input_data |-> Join([k \in 1..n |->
                                            Render(ValueSamples[vs[k]])], " "),
                     parser |-> <<>>,
                     ret |-> <<>>]

\* generate_leetcode_input_parser returns the parsing code and the call.
GenerateCall ==
    /\ call.fn = "driver"
    /\ call.parser = <<>>
    /\ call' = [call EXCEPT !.parser = <<GenerateParser(call.params)>>]
    /\ UNCHANGED harness

\* What a run of the driver can do: past undefined behaviour the process may
\* end or go on to the call.
Outcomes(run) ==
    IF run.kind = "undefined"
    THEN {[run EXCEPT !.kind = "terminated"], [run EXCEPT !.kind = "called"]}
    ELSE {run}

\* The compiled driver runs on the scratch input of the case.
DriverRuns ==
    /\ call.fn = "driver"
    /\ call.parser # <<>>
    /\ call.ret = <<>>
    /\ \E run \in Outcomes(RunDriver(call.parser[1].steps,
                                     ScratchInput(LEETCODE, call.input_data))) :
          call' = [call EXCEPT !.ret = <<run>>]
    /\ UNCHANGED harness

NextDriver == GenerateCall \/ DriverRuns

SpecDriver == InitDriver /\ [][NextDriver]_vars

\* The parameters between the commas of the declaration.
DeclaredParams(params) ==
    IF params = <<>> THEN <<>> ELSE SplitOn(params, ",")

\* C18: the driver passes one argument per declared parameter, in
\* declaration order: as many call arguments as comma-separated parameters,
\* the i-th being the i-th parameter's name (its last whitespace token
\* without leading or trailing "&" and "*"), of the type its other tokens
\* make when joined by spaces.
C18_OneArgumentPerParameter ==
    (call.fn = "driver" /\ call.parser # <<>>) =>
        LET declared == DeclaredParams(call.params)
            gen == call.parser[1]
        IN  /\ Len(gen.call_args) = Len(declared)
            /\ \A k \in 1..Len(declared) :
                  LET toks == Split(declared[k])
                  IN  /\ gen.call_args[k] = StripDecoration(toks[Len(toks)])
                      /\ gen.steps[k].param_type
                            = Join(SubSeq(toks, 1, Len(toks) - 1), " ")

\* The input holds one value per parameter, each of its parameter's kind.
OneValuePerParameter ==
    /\ call.parser # <<>>
    /\ Len(call.parser[1].steps) = Len(call.values)
    /\ Len(DeclaredParams(call.params)) = Len(call.values)
    /\ \A k \in 1..Len(call.values) :
          call.parser[1].steps[k].kind = call.values[k].kind

\* C19: whatever the order of the parameter types, when the scratch input
\* holds one value per line in declaration order the i-th parameter receives
\* the i-th value; a line-read sequence after a token-read scalar reads its
\* own line.
C19_EachParameterReceivesItsValue ==
    (call.fn = "driver" /\ call.ret # <<>> /\ OneValuePerParameter) =>
        /\ call.ret[1].kind = "called"
        /\ \A k \in 1..Len(call.values) :
              /\ call.ret[1].received[k].kind = call.values[k].kind
              /\ call.ret[1].received[k].v = call.values[k].v

\* ----------------------------------------- the step of a vector<int> parameter

\* Largest number of elements of a sequence argument.
MaxVec == 3

IntSamples == {0, 7, 11, 0 - 2}

IntVectors(maxvec) == UNION { [1..n -> IntSamples] : n \in 0..maxvec }

\* What follows the sequence's line in the scratch input: nothing, or the
\* line of the next argument.
FollowingLines == { <<>>, <<"\n", "9">> }

InitVector ==
    /\ HarnessIdle
    /\ \E vector \in IntVectors(MaxVec), following \in FollowingLines :
          call = [fn |-> "vector<int>",
                  vector |-> vector,
                  scratch |-> Render([kind |-> "vector<int>", v |-> vector])
                              \o following,
                  ret |-> <<>>]

\* The driver's step for a vector<int> parameter runs on the scratch input.
VectorCall ==
    /\ call.fn = "vector<int>"
    /\ call.ret = <<>>
    /\ call' = [call EXCEPT
                  !.ret = <<VectorIntStep([rest |-> call.scratch, fail |-> FALSE])>>]
    /\ UNCHANGED harness

NextVector == VectorCall

SpecVector == InitVector /\ [][NextVector]_vars

VectorDone == call.fn = "vector<int>" /\ call.ret # <<>>

\* C20: the step of a sequence-of-integer parameter maps the input line
\* [v1,...,vn] to the n elements v1..vn in that order, for every n >= 0; the
\* empty literal [] gives a sequence of length zero and no error.
C20_VectorLiteralParsedInOrder ==
    VectorDone =>
        /\ call.ret[1].kind = "ok"
        /\ call.ret[1].value.kind = "vector<int>"
        /\ Len(call.ret[1].value.v) = Len(call.vector)
        /\ \A k \in 1..Len(call.vector) : call.ret[1].value.v[k] = call.vector[k]

\* A parsed line of at least two elements, one negative and one of two
\* digits, with another argument's line after it.
C20_Witness ==
    /\ VectorDone
    /\ call.ret[1].kind = "ok"
    /\ Len(call.vector) >= 2
    /\ call.vector[1] = 11
    /\ call.vector[2] < 0
    /\ Len(call.scratch) > Len(Render([kind |-> "vector<int>", v |-> call.vector]))

\* ------------------------------------------------- create_leetcode_test_runner
\* A source file is a sequence of atoms: the header of an entry point
\* (`int main(...)`), "{", "}" and other text (";").

\* Largest number of atoms in the body of an entry point.
MaxBody == 6

MainHeader == "int main()"

\* The rest of main_pattern after the opening brace of the body,
\* [^{}]*(?:\{[^{}]*\}[^{}]*)*\} , matched from place k of s: the place of
\* the closing brace, 0 when the pattern does not match. nested says the scan
\* is inside a \{[^{}]*\} group, where no further brace may open.
RECURSIVE MainBodyEnd(_, _, _)
MainBodyEnd(s, k, nested) ==
    IF k > Len(s) THEN 0
    ELSE IF s[k] = "{" THEN (IF nested THEN 0 ELSE MainBodyEnd(s, k + 1, TRUE))
    ELSE IF s[k] = "}" THEN (IF nested THEN MainBodyEnd(s, k + 1, FALSE) ELSE k)
    ELSE MainBodyEnd(s, k + 1, nested)

\* Where a match of main_pattern that starts at the head of s ends, else 0.
MainMatchEnd(s) ==
    IF Len(s) >= 2 /\ s[1] = MainHeader /\ s[2] = "{"
    THEN MainBodyEnd(s, 3, FALSE)
    ELSE 0

\* re.sub(main_pattern, '', original_content, flags=re.DOTALL)
RECURSIVE RemoveMain(_)
RemoveMain(s) ==
    IF s = <<>> THEN <<>>
    ELSE IF MainMatchEnd(s) # 0
         THEN RemoveMain(SubSeq(s, MainMatchEnd(s) + 1, Len(s)))
         ELSE <<Head(s)>> \o RemoveMain(Tail(s))

\* The int main() { ... return 0; } of the template.
SynthesizedMain == <<MainHeader, "{", ";", "}">>

\* test_runner_content
TestRunnerContent(original_content) ==
    RemoveMain(original_content) \o SynthesizedMain

\* Brace depth after s, starting from depth; -1 once a brace closes that
\* never opened.
RECURSIVE Depth(_, _)
Depth(s, depth) ==
    IF s = <<>> \/ depth < 0 THEN depth
    ELSE Depth(Tail(s), CASE Head(s) = "{" -> depth + 1
                          [] Head(s) = "}" -> depth - 1
                          [] OTHER -> depth)

\* Bodies of an entry point: statements and balanced blocks.
Bodies(maxbody) ==
    UNION { { b \in [1..n -> {"{", "}", ";"}] : Depth(b, 0) = 0 } : n \in 0..maxbody }

SolutionClass == <<"class Solution", "{", ";", "}">>

\* A solution file: the class, then no entry point or one.
Sources(maxbody) ==
    {SolutionClass}
      \cup { SolutionClass \o <<MainHeader, "{">> \o b \o <<"}">> \o tail :
                b \in Bodies(maxbody), tail \in {<<>>, <<";">>} }

InitRunner ==
    /\ HarnessIdle
    /\ \E original_content \in Sources(MaxBody) :
          call = [fn |-> "create_leetcode_test_runner",
                  original_content |-> original_content,
                  ret |-> <<>>]

\* create_leetcode_test_runner writes the driver source.
RunnerCall ==
    /\ call.fn = "create_leetcode_test_runner"
    /\ call.ret = <<>>
    /\ call' = [call EXCEPT !.ret = <<TestRunnerContent(call.original_content)>>]
    /\ UNCHANGED harness

NextRunner == RunnerCall

SpecRunner == InitRunner /\ [][NextRunner]_vars

EntryPoints(content) ==
    Cardinality({ k \in 1..Len(content) : content[k] = MainHeader })

\* C21: the driver source has exactly one entry point: an entry point of the
\* original source is removed before splicing, whatever the brace nesting
\* depth of its body.
C21_ExactlyOneEntryPoint ==
    (call.fn = "create_leetcode_test_runner" /\ call.ret # <<>>) =>
        EntryPoints(call.ret[1]) = 1

\* ---------------------------------------------- the shared scratch files

\* C22: run_test_case on the same executable and the same case gives the
\* same verdict whatever the scratch files held before: the process reads
\* the case's own input, and the verdict is the comparison of what that
\* process wrote with the expected output.
C22_VerdictFromOwnOutput ==
    [][\A r \in Run :
         (ReadOutput(r) /\ Len(results'[r]) = Len(results[r]) + 1) =>
            /\ stdin[r] = ScratchInput(platform[r], CurrentCase(r).input_data)
            /\ results'[r][Len(results'[r])].passed
                  = (/\ Decodable(stdout[r])
                     /\ Strip(stdout[r]) = Strip(CurrentCase(r).expected_output))]_vars

\* C23: the output recorded for a case is never text an earlier case left
\* in io/output.txt: the file is truncated when the case's process starts
\* and holds what that process wrote, and nothing else, when it is read; and
\* io/input.txt is overwritten with the case's own input.
C23_ScratchFilesHoldOwnCase ==
    [][\A r \in Run :
         /\ StartProcess(r) => output_file' = <<>>
         /\ (PrepareInput(r) /\ pc'[r] = "launch") =>
               input_file' = ScratchInput(platform[r], CurrentCase(r).input_data)
         /\ ReadOutput(r) => output_file = stdout[r]]_vars

====
